---- MODULE Spec2Model ----
(***************************************************************************)
(* A model of src/main.py: the query-answering pipeline (keyword           *)
(* extraction, query building, search, filtering, page fetches,            *)
(* encyclopedia lookup, model call, truncation and escaping) and its two   *)
(* transports, the streaming endpoint websocket_search and the             *)
(* synchronous endpoint search.                                            *)
(*                                                                         *)
(* Text is a sequence of one-character strings.  Every await of the code   *)
(* is one action; the synchronous code between two awaits belongs to the   *)
(* action of the await that precedes it (the entry of summarize_results,   *)
(* which touches no shared state, is an action of its own).  The           *)
(* collaborators (search API, source pages, encyclopedia, generative       *)
(* model, the peer of the websocket) answer nondeterministically; an       *)
(* answer, once given for a request, is kept, so that two runs of one      *)
(* scenario see the same collaborator responses.                           *)
(*                                                                         *)
(* The websocket is the framework's: client_state changes only when a      *)
(* receive sees the peer's disconnect, a send on a connection the peer     *)
(* has closed raises (WebSocketDisconnect, marking application_state       *)
(* DISCONNECTED, or the server's own error), and close() is such a send.   *)
(***************************************************************************)
EXTENDS Integers, Sequences, FiniteSets, TLC

\* ------------------------------------------------------------------ bounds
\* Longest query text the client sends (QuerySpec).
MaxQueryLen == 4
\* Largest page number requested.
MaxPage == 2
\* Largest number of items the search API answers with.
MaxResults == 11
\* Largest number of leading "$" characters in the model's text.
MaxDollars == 2

\* ------------------------------------------------------- program constants
\* results[:10]
FilterCap == 10
\* results[:3]
SourceCap == 3
\* response.text[:300]
SummaryCap == 300
\* (page - 1) * 10 + 1
PageSize == 10
\* HTTPException(status_code=500, ...)
GenericStatus == 500

\* ------------------------------------------------------------- text helpers
Min(a, b) == IF a <= b THEN a ELSE b

\* Python's s[:n] for n >= 0.
Take(s, n) == SubSeq(s, 1, Min(n, Len(s)))

\* The characters str.split() with no argument treats as separators.
Whitespace == {" ", "\t", "\n"}

\* The characters a query of the model is written with.
QueryChars == {"a", " ", "\t"}

RECURSIVE SeqsUpTo(_, _)
SeqsUpTo(S, n) ==
  IF n = 0 THEN {<<>>}
  ELSE LET shorter == SeqsUpTo(S, n - 1)
       IN  shorter \cup {Append(s, c) : s \in shorter, c \in S}

\* Every query text of at most MaxQueryLen characters.
Queries == SeqsUpTo(QueryChars, MaxQueryLen)

\* The queries the whole pipeline is run with: empty, whitespace only, one
\* keyword, two keywords between whitespace.
PipelineQueries ==
  {<<>>, <<" ">>, <<"\t", " ">>, <<"a">>, <<" ", "a", "\t", " ", "a", " ">>}

\* The queries two interleaved runs are given: blank, and two keywords
\* between whitespace.
PairQueries == {<<"\t", " ">>, <<" ", "a", "\t", " ", "a", " ">>}

\* ----------------------------------------------------------- pure functions
\* str.split(): cut at every run of whitespace, no empty pieces.
RECURSIVE SplitFrom(_, _, _)
SplitFrom(s, cur, acc) ==
  IF s = <<>> THEN (IF cur = <<>> THEN acc ELSE Append(acc, cur))
  ELSE IF Head(s) \in Whitespace
       THEN SplitFrom(Tail(s), <<>>, IF cur = <<>> THEN acc ELSE Append(acc, cur))
       ELSE SplitFrom(Tail(s), Append(cur, Head(s)), acc)

\* A mutant of extract_keywords: split at single spaces, as query.split(" ").
RECURSIVE SplitAtEach(_, _, _)
SplitAtEach(s, cur, acc) ==
  IF s = <<>> THEN Append(acc, cur)
  ELSE IF Head(s) = " "
       THEN SplitAtEach(Tail(s), <<>>, Append(acc, cur))
       ELSE SplitAtEach(Tail(s), Append(cur, Head(s)), acc)

extract_keywords_single_space(query) == SplitAtEach(query, <<>>, <<>>)

extract_keywords(query) == SplitFrom(query, <<>>, <<>>)

\* sep.join(words)
RECURSIVE JoinWith(_, _)
JoinWith(sep, words) ==
  IF words = <<>> THEN <<>>
  ELSE IF Len(words) = 1 THEN Head(words)
  ELSE Head(words) \o sep \o JoinWith(sep, Tail(words))

\* A mutant of generate_search_query: ''.join(keywords).
generate_search_query_nosep(keywords) == JoinWith(<<>>, keywords)

generate_search_query(keywords) == JoinWith(<<" ">>, keywords)

\* A mutant of evaluate_and_filter_results: results[:9].
evaluate_and_filter_results_nine(results) == Take(results, FilterCap - 1)

\* results[:10]
evaluate_and_filter_results(results) == Take(results, FilterCap)

\* str.replace(old, new) for a non-empty old: left to right, not overlapping.
\* ScanTo scans the positions i..stop of s and gives <<next position, output>>;
\* ReplaceBlocks runs it block after block to keep the evaluation shallow.
RECURSIVE ScanTo(_, _, _, _, _, _)
ScanTo(s, i, stop, old, new, out) ==
  IF i > stop \/ i > Len(s) THEN <<i, out>>
  ELSE IF i + Len(old) - 1 <= Len(s) /\ SubSeq(s, i, i + Len(old) - 1) = old
       THEN ScanTo(s, i + Len(old), stop, old, new, out \o new)
       ELSE ScanTo(s, i + 1, stop, old, new, Append(out, s[i]))

RECURSIVE ReplaceBlocks(_, _, _, _)
ReplaceBlocks(s, st, old, new) ==
  IF st[1] > Len(s) THEN st[2]
  ELSE LET nx == ScanTo(s, st[1], st[1] + 15, old, new, st[2])
       IN  ReplaceBlocks(s, nx, old, new)

Replace(s, old, new) == ReplaceBlocks(s, <<1, <<>> >>, old, new)

\* text.replace("$", "\\(").replace("$$", "\\[").replace("$$", "\\]")
render_latex(text) ==
  Replace(Replace(Replace(text, <<"$">>, <<"\\", "(">>),
                  <<"$", "$">>, <<"\\", "[">>),
          <<"$", "$">>, <<"\\", "]">>)

\* ------------------------------------------------------------ collaborators
\* One item of the search API's answer, by rank.  displayLink stands for the
\* fields of an item the program never reads.
Item(i) ==
  [link |-> <<"link", i>>,
   title |-> IF i % 2 = 1 THEN <<"t">> ELSE <<"t", " ", "u">>,
   snippet |-> <<"snippet", i>>,
   displayLink |-> <<"host", i>>]

Items(n) == [i \in 1..n |-> Item(i)]

\* No answer given yet.
Undecided == [status |-> 0, text |-> "", fault |-> FALSE, hasItems |-> FALSE,
              items |-> <<>>, hit |-> FALSE, chars |-> <<>>]

Answer(status, text) == [Undecided EXCEPT !.status = status, !.text = text]

\* How many items the search API answers with: around the source cap and
\* around the filter cap.
ResultCounts == (0..(SourceCap + 1)) \cup ((FilterCap - 1)..MaxResults)

\* The search API's failures.
SearchFailures ==
  {Answer(st, "search api error body") : st \in {403, 503}}
  \cup {[Answer(0, "search api unreachable") EXCEPT !.fault = TRUE]}

\* The search API: a 200 with an items array, a 200 without one, a non-2xx
\* status with a body, or no HTTP answer at all (fault).
SearchResponses ==
  {[Answer(200, "search json") EXCEPT !.hasItems = TRUE, !.items = Items(n)] :
     n \in ResultCounts}
  \cup {Answer(200, "search json")}
  \cup SearchFailures

\* A source page: served, refused with a block page, refused, or missing.
FetchResponses ==
  {Answer(200, "<p>page</p>"),
   Answer(403, "Attention Required! | Cloudflare"),
   Answer(403, "page forbidden body"),
   Answer(404, "page not found body")}

\* The encyclopedia's search call and its extract call.
WikiSearchResponses ==
  {[Answer(200, "wiki search json") EXCEPT !.hit = TRUE],
   Answer(200, "wiki search json"),
   Answer(429, "encyclopedia search error body")}

WikiPageResponses ==
  {Answer(200, "wiki extract json"),
   Answer(503, "encyclopedia page error body")}

\* The model's text: d "$" characters, then n other characters.
ModelText(d, n) == [i \in 1..(d + n) |-> IF i <= d THEN "$" ELSE "x"]

ModelTexts ==
  {ModelText(d, n) : d \in 0..MaxDollars, n \in {0, SummaryCap}}

\* The model: a text, or a failure of the call (fault).
ModelResponses ==
  {[Answer(200, "model text") EXCEPT !.chars = t] : t \in ModelTexts}
  \cup {[Answer(0, "model call failed") EXCEPT !.fault = TRUE]}

\* The answers still possible for a request: any, or the one already given.
Possible(given, all) == IF given = Undecided THEN all ELSE {given}

\* -------------------------------------------------------------- exceptions
NoExc == [type |-> "none", origin |-> "", status |-> 0, text |-> ""]

Exc(type, origin, text) ==
  [type |-> type, origin |-> origin, status |-> 0, text |-> text]

\* response.raise_for_status() on a non-2xx response.
HTTPStatusError(origin, resp) ==
  [type |-> "HTTPStatusError", origin |-> origin, status |-> resp.status,
   text |-> resp.text]

\* response.raise_for_status(): whether it raises.
IsErrorStatus(status) == status < 200 \/ status >= 300

\* "cloudflare" in response.text.lower()
MentionsCloudflare(text) == text \in {"Attention Required! | Cloudflare"}

\* ------------------------------------------------------------------- state
Runs == {"ws", "http"}

VARIABLES
  Config,            \* the process-wide configuration (keys, engine id)
  model,             \* the process-wide model handle
  query,             \* the request's query text
  page,              \* the request's page number
  reqOk,             \* whether the streaming request's message validates
  pc,                \* each run's position
  keywords,          \* each run's local keywords
  search_query,      \* each run's local search_query
  search_results,    \* each run's local search_results
  filtered_results,  \* each run's local filtered_results
  sources,           \* summarize_results' local sources
  fetched,           \* how many sources of the loop have been fetched
  summary,           \* summarize_results' result text
  exc,               \* the exception a run's try body raised
  calls,             \* each run's collaborator calls, in order
  conn,              \* the websocket connection itself
  client_state,      \* websocket.client_state
  application_state, \* websocket.application_state
  sent,              \* the messages delivered to the peer
  deadSends,         \* send attempts made after the peer closed
  closeCalls,        \* calls of websocket.close()
  escaped,           \* the exception that left websocket_search
  response,          \* the synchronous endpoint's HTTP response
  searchResp,        \* the search API's answer
  fetchResp,         \* each source page's answer, by rank
  wikiSearchResp,    \* the encyclopedia search's answer
  wikiPageResp,      \* the encyclopedia extract's answer
  modelResp          \* the model's answer

process == <<Config, model>>
request == <<query, page, reqOk>>
locals == <<keywords, search_query, search_results, filtered_results, sources,
            fetched, summary>>
socket == <<conn, client_state, application_state, sent, deadSends,
            closeCalls, escaped>>
oracle == <<searchResp, fetchResp, wikiSearchResp, wikiPageResp, modelResp>>
vars == <<process, request, pc, locals, exc, calls, socket, response, oracle>>

NoResponse == [status |-> 0]

\* The configuration read at startup, and the handle made from it.
StartupConfig ==
  [GOOGLE_API_KEY |-> "search key", CUSTOM_SEARCH_ENGINE_ID |-> "engine",
   GOOGLE_GEMINI_API_KEY |-> "model key"]

StartupModel ==
  [model_name |-> "models/gemini-2.0-flash", api_key |-> "model key"]

\* The state before any run has taken a step; started is the set of runs of
\* this behaviour, queries the query texts it may be about.
InitWith(started, queries) ==
  /\ Config = StartupConfig
  /\ model = StartupModel
  /\ reqOk \in BOOLEAN
  /\ reqOk = FALSE => "http" \notin started
  /\ query \in (IF reqOk THEN queries ELSE {<<>>})
  /\ page \in (IF reqOk THEN 1..MaxPage ELSE {1})
  /\ pc = [r \in Runs |-> IF r \notin started THEN "off"
                          ELSE IF r = "ws" THEN "accept" ELSE "call"]
  /\ keywords = [r \in Runs |-> <<>>]
  /\ search_query = [r \in Runs |-> <<>>]
  /\ search_results = [r \in Runs |-> <<>>]
  /\ filtered_results = [r \in Runs |-> <<>>]
  /\ sources = [r \in Runs |-> <<>>]
  /\ fetched = [r \in Runs |-> 0]
  /\ summary = [r \in Runs |-> <<>>]
  /\ exc = [r \in Runs |-> NoExc]
  /\ calls = [r \in Runs |-> <<>>]
  /\ conn = "open"
  /\ client_state = "CONNECTED"
  /\ application_state = "CONNECTED"
  /\ sent = <<>>
  /\ deadSends = 0
  /\ closeCalls = 0
  /\ escaped = "none"
  /\ response = NoResponse
  /\ fetchResp = [i \in 1..SourceCap |-> Undecided]
  /\ wikiSearchResp = Undecided
  /\ wikiPageResp = Undecided
  /\ modelResp = Undecided

\* One request, on one of the two transports.
Init == searchResp = Undecided /\ \E r \in Runs : InitWith({r}, PipelineQueries)

\* One request with any query text, on one of the two transports, on a day
\* the search API fails.
InitQuery == searchResp \in SearchFailures /\ \E r \in Runs : InitWith({r}, Queries)

\* ------------------------------------------------------- shared operators
\* A mutant of search_except: the generic clause catches everything.
search_except_generic(e) == [status |-> GenericStatus, detail |-> e.text]

\* A mutant of search_except: the generic clause hides the exception's text.
search_except_opaque(e) ==
  IF e.type = "HTTPStatusError"
  THEN [status |-> e.status, detail |-> e.text]
  ELSE [status |-> GenericStatus, detail |-> "Internal Server Error"]

\* The exception clauses of search: the upstream status and body for an
\* HTTPStatusError, status 500 and str(e) for anything else.
search_except(e) ==
  IF e.type = "HTTPStatusError"
  THEN [status |-> e.status, detail |-> e.text]
  ELSE [status |-> GenericStatus, detail |-> e.text]

\* Run r's try body raises e: search answers at once (its handlers do not
\* await), websocket_search goes to its handlers.
Fail(r, e) ==
  /\ exc' = [exc EXCEPT ![r] = e]
  /\ IF r = "http"
     THEN /\ response' = search_except(e)
          /\ pc' = [pc EXCEPT ![r] = "done"]
     ELSE /\ pc' = [pc EXCEPT ![r] = "except"]
          /\ UNCHANGED response

\* A mutant of PublicView: the items as the search API gave them.
PublicView_full(results) == results

\* The link/title/snippet view of the results, as both endpoints build it.
PublicView(results) ==
  [i \in 1..Len(results) |->
     [link |-> results[i].link, title |-> results[i].title,
      snippet |-> results[i].snippet]]

\* A mutant of perform_search_start: a zero-based offset, (page - 1) * 10.
perform_search_start_zero(p) == (p - 1) * PageSize

\* "start": (page - 1) * 10 + 1
perform_search_start(p) == (p - 1) * PageSize + 1

\* search_results.get("items", [])
perform_search_items(resp) == IF resp.hasItems THEN resp.items ELSE <<>>

\* A mutant of summarize_sources: the top 2 results.
summarize_sources_two(results) ==
  [i \in 1..Min(SourceCap - 1, Len(results)) |-> results[i].link]

\* [result["link"] for result in results[:3]]
summarize_sources(results) ==
  [i \in 1..Min(SourceCap, Len(results)) |-> results[i].link]

\* response.text[:300], then render_latex
summarize_text(chars) == render_latex(Take(chars, SummaryCap))

Log(r, api, arg) ==
  calls' = [calls EXCEPT ![r] = Append(@, [api |-> api, arg |-> arg])]

\* --------------------------------------------------------- pipeline stages
\* perform_search: the search API answers.
PerformSearch(r) ==
  /\ pc[r] = "perform_search"
  /\ \E resp \in Possible(searchResp, SearchResponses) :
       /\ searchResp' = resp
       /\ Log(r, "search", <<search_query[r], perform_search_start(page)>>)
       /\ IF resp.fault
          THEN /\ Fail(r, Exc("RequestError", "search", resp.text))
               /\ UNCHANGED <<search_results, filtered_results>>
          ELSE IF IsErrorStatus(resp.status)
          THEN /\ Fail(r, HTTPStatusError("search", resp))
               /\ UNCHANGED <<search_results, filtered_results>>
          ELSE /\ search_results' =
                    [search_results EXCEPT ![r] = perform_search_items(resp)]
               /\ IF r = "ws"
                  THEN /\ pc' = [pc EXCEPT ![r] = "send_evaluating"]
                       /\ UNCHANGED filtered_results
                  ELSE /\ filtered_results' =
                            [filtered_results EXCEPT ![r] =
                               evaluate_and_filter_results(search_results'[r])]
                       /\ pc' = [pc EXCEPT ![r] = "summarize"]
               /\ UNCHANGED <<exc, response>>
  /\ UNCHANGED <<process, request, keywords, search_query, sources, fetched, summary,
                 socket, fetchResp, wikiSearchResp, wikiPageResp, modelResp>>

\* A mutant of Summarize: with no result the encyclopedia lookup is skipped
\* and the model is called with no content.
Summarize_guarded(r) ==
  /\ pc[r] = "summarize"
  /\ sources' = [sources EXCEPT ![r] = summarize_sources(filtered_results[r])]
  /\ fetched' = [fetched EXCEPT ![r] = 0]
  /\ pc' = [pc EXCEPT ![r] = IF sources'[r] # <<>> THEN "fetch_content"
                             ELSE IF filtered_results[r] = <<>> THEN "generate"
                             ELSE "wikipedia_search"]
  /\ UNCHANGED <<exc, response>>
  /\ UNCHANGED <<process, request, keywords, search_query, search_results,
                 filtered_results, summary, calls, socket, oracle>>

\* A mutant of Summarize: sources and the loop's position are module-level
\* names, written by every run.
Summarize_shared(r) ==
  /\ pc[r] = "summarize"
  /\ sources' = [q \in Runs |-> summarize_sources(filtered_results[r])]
  /\ fetched' = [q \in Runs |-> 0]
  /\ IF sources'[r] # <<>>
     THEN /\ pc' = [pc EXCEPT ![r] = "fetch_content"]
          /\ UNCHANGED <<exc, response>>
     ELSE IF filtered_results[r] = <<>>
     THEN Fail(r, Exc("IndexError", "summarize", "list index out of range"))
     ELSE /\ pc' = [pc EXCEPT ![r] = "wikipedia_search"]
          /\ UNCHANGED <<exc, response>>
  /\ UNCHANGED <<process, request, keywords, search_query, search_results,
                 filtered_results, summary, calls, socket, oracle>>

\* summarize_results up to its first await: the sources, and, when there is
\* none to fetch, results[0], which raises on an empty list.
Summarize(r) ==
  /\ pc[r] = "summarize"
  /\ sources' = [sources EXCEPT ![r] = summarize_sources(filtered_results[r])]
  /\ fetched' = [fetched EXCEPT ![r] = 0]
  /\ IF sources'[r] # <<>>
     THEN /\ pc' = [pc EXCEPT ![r] = "fetch_content"]
          /\ UNCHANGED <<exc, response>>
     ELSE IF filtered_results[r] = <<>>
     THEN Fail(r, Exc("IndexError", "summarize", "list index out of range"))
     ELSE /\ pc' = [pc EXCEPT ![r] = "wikipedia_search"]
          /\ UNCHANGED <<exc, response>>
  /\ UNCHANGED <<process, request, keywords, search_query, search_results,
                 filtered_results, summary, calls, socket, oracle>>

\* fetch_content for the next source of the loop: the page answers.
FetchContent(r) ==
  /\ pc[r] = "fetch_content"
  /\ LET i == fetched[r] + 1 IN
     \E resp \in Possible(fetchResp[i], FetchResponses) :
       /\ fetchResp' = [fetchResp EXCEPT ![i] = resp]
       /\ Log(r, "fetch", sources[r][i])
       /\ IF resp.status = 403 /\ MentionsCloudflare(resp.text)
          THEN /\ Fail(r, Exc("Exception", "fetch", "Blocked by Cloudflare"))
               /\ UNCHANGED fetched
          ELSE IF IsErrorStatus(resp.status)
          THEN /\ Fail(r, HTTPStatusError("fetch", resp))
               /\ UNCHANGED fetched
          ELSE /\ fetched' = [fetched EXCEPT ![r] = i]
               \* after the last source: results[0] exists, the loop ran
               /\ pc' = [pc EXCEPT ![r] = IF i = Len(sources[r])
                                          THEN "wikipedia_search"
                                          ELSE "fetch_content"]
               /\ UNCHANGED <<exc, response>>
  /\ UNCHANGED <<process, request, keywords, search_query, search_results,
                 filtered_results, sources, summary, socket, searchResp,
                 wikiSearchResp, wikiPageResp, modelResp>>

\* A mutant of WikipediaSearch: a failed lookup is caught and counts as no
\* encyclopedia content.
WikipediaSearch_caught(r) ==
  /\ pc[r] = "wikipedia_search"
  /\ \E resp \in Possible(wikiSearchResp, WikiSearchResponses) :
       /\ wikiSearchResp' = resp
       /\ Log(r, "wiki_search", extract_keywords(filtered_results[r][1].title))
       /\ pc' = [pc EXCEPT ![r] = IF resp.hit THEN "wikipedia_page"
                                  ELSE "generate"]
       /\ UNCHANGED <<exc, response>>
  /\ UNCHANGED <<process, request, locals, socket, searchResp, fetchResp,
                 wikiPageResp, modelResp>>

\* fetch_wikipedia_content, first call: the encyclopedia's search answers.
WikipediaSearch(r) ==
  /\ pc[r] = "wikipedia_search"
  /\ \E resp \in Possible(wikiSearchResp, WikiSearchResponses) :
       /\ wikiSearchResp' = resp
       /\ Log(r, "wiki_search", extract_keywords(filtered_results[r][1].title))
       /\ IF IsErrorStatus(resp.status)
          THEN Fail(r, HTTPStatusError("wiki", resp))
          ELSE /\ pc' = [pc EXCEPT ![r] = IF resp.hit THEN "wikipedia_page"
                                          ELSE "generate"]
               /\ UNCHANGED <<exc, response>>
  /\ UNCHANGED <<process, request, locals, socket, searchResp, fetchResp, wikiPageResp,
                 modelResp>>

\* fetch_wikipedia_content, second call: the extract of the page found.
WikipediaPage(r) ==
  /\ pc[r] = "wikipedia_page"
  /\ \E resp \in Possible(wikiPageResp, WikiPageResponses) :
       /\ wikiPageResp' = resp
       /\ Log(r, "wiki_page", <<"pageid">>)
       /\ IF IsErrorStatus(resp.status)
          THEN Fail(r, HTTPStatusError("wiki", resp))
          ELSE /\ pc' = [pc EXCEPT ![r] = "generate"]
               /\ UNCHANGED <<exc, response>>
  /\ UNCHANGED <<process, request, locals, socket, searchResp, fetchResp,
                 wikiSearchResp, modelResp>>

\* model.generate_content, the truncation and the escaping; search then
\* returns its body, websocket_search goes on to its last send.
Generate(r) ==
  /\ pc[r] = "generate"
  /\ \E resp \in Possible(modelResp, ModelResponses) :
       /\ modelResp' = resp
       /\ Log(r, "generate", <<"content">>)
       /\ IF resp.fault
          THEN /\ Fail(r, Exc("ModelError", "model", resp.text))
               /\ UNCHANGED summary
          ELSE /\ summary' = [summary EXCEPT ![r] = summarize_text(resp.chars)]
               /\ exc' = exc
               /\ IF r = "ws"
                  THEN /\ pc' = [pc EXCEPT ![r] = "send_completed"]
                       /\ UNCHANGED response
                  ELSE /\ response' =
                            [status |-> 200, label |-> "Completed",
                             result |-> summary'[r], sources |-> sources[r],
                             googleResults |-> PublicView(filtered_results[r])]
                       /\ pc' = [pc EXCEPT ![r] = "done"]
  /\ UNCHANGED <<process, request, keywords, search_query, search_results,
                 filtered_results, sources, fetched, socket, searchResp,
                 fetchResp, wikiSearchResp, wikiPageResp>>

\* --------------------------------------------------- synchronous transport
\* search up to its first await: the keywords, the search query, and the
\* call of perform_search.
SearchCall ==
  /\ pc["http"] = "call"
  /\ keywords' = [keywords EXCEPT !["http"] = extract_keywords(query)]
  /\ search_query' =
       [search_query EXCEPT !["http"] = generate_search_query(keywords'["http"])]
  /\ pc' = [pc EXCEPT !["http"] = "perform_search"]
  /\ UNCHANGED <<process, request, search_results, filtered_results, sources, fetched,
                 summary, exc, calls, socket, response, oracle>>

\* ----------------------------------------------------- streaming transport
WebSocketDisconnect == Exc("WebSocketDisconnect", "transport", "")

\* The RuntimeError of a send the server underneath refuses.
SendError ==
  Exc("RuntimeError", "transport", "Unexpected ASGI message 'websocket.send'")

\* What a send on the connection can do: deliver while the connection is
\* open; once the peer has closed, raise WebSocketDisconnect (and mark the
\* application side DISCONNECTED) or raise the server's own error, as the
\* framework underneath decides.
SendOutcomes == IF conn = "open" THEN {"delivered"} ELSE {"raised", "refused"}

\* The exception a failed send raises.
SendException(o) == IF o = "raised" THEN WebSocketDisconnect ELSE SendError

\* await websocket.send_json(msg) in the try body, then on to position next.
TrySend(msg, next, o) ==
  /\ sent' = IF o = "delivered" THEN Append(sent, msg) ELSE sent
  /\ deadSends' = IF o = "delivered" THEN deadSends ELSE deadSends + 1
  /\ application_state' =
       IF o = "raised" THEN "DISCONNECTED" ELSE application_state
  /\ exc' = IF o = "delivered" THEN exc
            ELSE [exc EXCEPT !["ws"] = SendException(o)]
  /\ pc' = [pc EXCEPT !["ws"] = IF o = "delivered" THEN next ELSE "except"]
  /\ UNCHANGED <<conn, client_state, closeCalls, escaped, response>>

\* await websocket.send_json(msg) in an except clause: what it raises leaves
\* the function, after the finally clause.
HandlerSend(msg, o) ==
  /\ sent' = IF o = "delivered" THEN Append(sent, msg) ELSE sent
  /\ deadSends' = IF o = "delivered" THEN deadSends ELSE deadSends + 1
  /\ application_state' =
       IF o = "raised" THEN "DISCONNECTED" ELSE application_state
  /\ escaped' = IF o = "delivered" THEN escaped ELSE SendException(o).type
  /\ pc' = [pc EXCEPT !["ws"] = "finally"]
  /\ UNCHANGED <<conn, client_state, closeCalls, exc, response>>

StatusMsg(label) == [status |-> label]

\* await websocket.accept()
WsAccept ==
  /\ pc["ws"] = "accept"
  /\ pc' = [pc EXCEPT !["ws"] = "receive"]
  /\ UNCHANGED <<process, request, locals, exc, calls, socket, response, oracle>>

\* await websocket.receive_json(), SearchQuery(**data), data.get("page", 1).
\* Only a receive learns that the peer has closed: it sets client_state and
\* raises WebSocketDisconnect.
WsReceive ==
  /\ pc["ws"] = "receive"
  /\ IF conn # "open"
     THEN /\ client_state' = "DISCONNECTED"
          /\ exc' = [exc EXCEPT !["ws"] = WebSocketDisconnect]
          /\ pc' = [pc EXCEPT !["ws"] = "except"]
          /\ UNCHANGED response
     ELSE /\ client_state' = client_state
          /\ IF reqOk
             THEN /\ pc' = [pc EXCEPT !["ws"] = "send_extracting"]
                  /\ UNCHANGED <<exc, response>>
             ELSE Fail("ws", Exc("ValidationError", "request",
                                 "query: field required"))
  /\ UNCHANGED <<process, request, locals, calls, conn, application_state, sent,
                 deadSends, closeCalls, escaped, oracle>>

\* "Extracting keywords...", then extract_keywords.
WsSendExtracting ==
  /\ pc["ws"] = "send_extracting"
  /\ \E o \in SendOutcomes :
       /\ TrySend(StatusMsg("Extracting keywords..."), "send_generating", o)
       /\ keywords' = IF o # "delivered" THEN keywords
                      ELSE [keywords EXCEPT !["ws"] = extract_keywords(query)]
  /\ UNCHANGED <<process, request, search_query, search_results, filtered_results,
                 sources, fetched, summary, calls, oracle>>

\* "Generating search query...", then generate_search_query.
WsSendGenerating ==
  /\ pc["ws"] = "send_generating"
  /\ \E o \in SendOutcomes :
       /\ TrySend(StatusMsg("Generating search query..."), "send_performing", o)
       /\ search_query' =
            IF o # "delivered" THEN search_query
            ELSE [search_query EXCEPT
                    !["ws"] = generate_search_query(keywords["ws"])]
  /\ UNCHANGED <<process, request, keywords, search_results, filtered_results, sources,
                 fetched, summary, calls, oracle>>

\* "Performing search...", then the call of perform_search.
WsSendPerforming ==
  /\ pc["ws"] = "send_performing"
  /\ \E o \in SendOutcomes :
       TrySend(StatusMsg("Performing search..."), "perform_search", o)
  /\ UNCHANGED <<process, request, locals, calls, oracle>>

\* "Evaluating and filtering results...", then evaluate_and_filter_results.
WsSendEvaluating ==
  /\ pc["ws"] = "send_evaluating"
  /\ \E o \in SendOutcomes :
       /\ TrySend(StatusMsg("Evaluating and filtering results..."),
                  "send_google", o)
       /\ filtered_results' =
            IF o # "delivered" THEN filtered_results
            ELSE [filtered_results EXCEPT
                    !["ws"] = evaluate_and_filter_results(search_results["ws"])]
  /\ UNCHANGED <<process, request, keywords, search_query, search_results, sources,
                 fetched, summary, calls, oracle>>

\* A mutant of WsSendGoogle: the results are never sent.
WsSendGoogle_skipped ==
  /\ pc["ws"] = "send_google"
  /\ pc' = [pc EXCEPT !["ws"] = "send_summarizing"]
  /\ UNCHANGED <<process, request, locals, exc, calls, socket, response, oracle>>

\* "Google results ready" with the public view of the filtered results.
WsSendGoogle ==
  /\ pc["ws"] = "send_google"
  /\ \E o \in SendOutcomes :
       TrySend([status |-> "Google results ready",
                googleResults |-> PublicView(filtered_results["ws"])],
               "send_summarizing", o)
  /\ UNCHANGED <<process, request, locals, calls, oracle>>

\* "Summarizing results...", then the call of summarize_results.
WsSendSummarizing ==
  /\ pc["ws"] = "send_summarizing"
  /\ \E o \in SendOutcomes :
       TrySend(StatusMsg("Summarizing results..."), "summarize", o)
  /\ UNCHANGED <<process, request, locals, calls, oracle>>

\* "Completed" with the summary and the sources; the try body ends.
WsSendCompleted ==
  /\ pc["ws"] = "send_completed"
  /\ \E o \in SendOutcomes :
       TrySend([status |-> "Completed", result |-> summary["ws"],
                sources |-> sources["ws"]], "finally", o)
  /\ UNCHANGED <<process, request, locals, calls, oracle>>

\* except WebSocketDisconnect: print.
WsExceptDisconnect ==
  /\ pc["ws"] = "except"
  /\ exc["ws"].type = "WebSocketDisconnect"
  /\ pc' = [pc EXCEPT !["ws"] = "finally"]
  /\ UNCHANGED <<process, request, locals, exc, calls, socket, response, oracle>>

\* A mutant of WsExceptHTTPStatus: the detail is a fixed text, not the body.
WsExceptHTTPStatus_fixed ==
  /\ pc["ws"] = "except"
  /\ exc["ws"].type = "HTTPStatusError"
  /\ \E o \in SendOutcomes :
       HandlerSend([status |-> "Error", detail |-> "upstream error"], o)
  /\ UNCHANGED <<process, request, locals, calls, oracle>>

\* A mutant of WsExceptHTTPStatus: the "Error" message is sent twice.
WsExceptHTTPStatus_twice ==
  /\ pc["ws"] = "except"
  /\ exc["ws"].type = "HTTPStatusError"
  /\ LET msg == [status |-> "Error", detail |-> exc["ws"].text] IN
     \E o \in SendOutcomes :
       /\ sent' = IF o = "delivered" THEN sent \o <<msg, msg>> ELSE sent
       /\ deadSends' = IF o = "delivered" THEN deadSends ELSE deadSends + 1
       /\ application_state' =
            IF o = "raised" THEN "DISCONNECTED" ELSE application_state
       /\ escaped' = IF o = "delivered" THEN escaped ELSE SendException(o).type
       /\ pc' = [pc EXCEPT !["ws"] = "finally"]
       /\ UNCHANGED <<conn, client_state, closeCalls, exc, response>>
  /\ UNCHANGED <<process, request, locals, calls, oracle>>

\* except httpx.HTTPStatusError: an "Error" message with the response's text.
WsExceptHTTPStatus ==
  /\ pc["ws"] = "except"
  /\ exc["ws"].type = "HTTPStatusError"
  /\ \E o \in SendOutcomes :
       HandlerSend([status |-> "Error", detail |-> exc["ws"].text], o)
  /\ UNCHANGED <<process, request, locals, calls, oracle>>

\* A mutant of WsExceptOther: the exception is printed and nothing is sent.
WsExceptOther_silent ==
  /\ pc["ws"] = "except"
  /\ exc["ws"].type \notin {"WebSocketDisconnect", "HTTPStatusError"}
  /\ pc' = [pc EXCEPT !["ws"] = "finally"]
  /\ UNCHANGED <<process, request, locals, exc, calls, socket, response, oracle>>

\* except Exception: an "Error" message with str(e).
WsExceptOther ==
  /\ pc["ws"] = "except"
  /\ exc["ws"].type \notin {"WebSocketDisconnect", "HTTPStatusError"}
  /\ \E o \in SendOutcomes :
       HandlerSend([status |-> "Error", detail |-> exc["ws"].text], o)
  /\ UNCHANGED <<process, request, locals, calls, oracle>>

\* finally: close unless client_state is DISCONNECTED.  close() is a send of
\* the close frame: refused with a RuntimeError once application_state is
\* DISCONNECTED, and a send on a closed connection once the peer has gone.
WsFinally ==
  /\ pc["ws"] = "finally"
  /\ pc' = [pc EXCEPT !["ws"] = "done"]
  /\ IF client_state = "DISCONNECTED"
     THEN UNCHANGED <<conn, application_state, deadSends, closeCalls, escaped>>
     ELSE /\ closeCalls' = closeCalls + 1
          /\ IF application_state = "DISCONNECTED"
             THEN /\ escaped' = "RuntimeError"
                  /\ UNCHANGED <<conn, application_state, deadSends>>
             ELSE /\ application_state' = "DISCONNECTED"
                  /\ \E o \in SendOutcomes :
                       /\ conn' = IF o = "delivered" THEN "closed_by_server"
                                  ELSE conn
                       /\ deadSends' = IF o = "delivered" THEN deadSends
                                       ELSE deadSends + 1
                       /\ escaped' = IF o = "delivered" THEN escaped
                                     ELSE SendException(o).type
  /\ UNCHANGED <<process, request, locals, exc, calls, client_state, sent, response,
                 oracle>>

\* The peer closes the connection, at any time after the accept.
PeerDisconnect ==
  /\ pc["ws"] \notin {"off", "accept", "done"}
  /\ conn = "open"
  /\ conn' = "closed_by_peer"
  /\ UNCHANGED <<process, request, pc, locals, exc, calls, client_state,
                 application_state, sent, deadSends, closeCalls, escaped,
                 response, oracle>>

\* ------------------------------------------------------------ specification
\* One step of run r.
RunStep(r) ==
  \/ PerformSearch(r) \/ Summarize(r) \/ FetchContent(r)
  \/ WikipediaSearch(r) \/ WikipediaPage(r) \/ Generate(r)
  \/ r = "http" /\ SearchCall
  \/ r = "ws" /\ (WsAccept \/ WsReceive \/ WsSendExtracting \/ WsSendGenerating
                  \/ WsSendPerforming \/ WsSendEvaluating \/ WsSendGoogle
                  \/ WsSendSummarizing \/ WsSendCompleted \/ WsExceptDisconnect
                  \/ WsExceptHTTPStatus \/ WsExceptOther \/ WsFinally)

Next ==
  \/ SearchCall
  \/ WsAccept
  \/ WsReceive
  \/ WsSendExtracting
  \/ WsSendGenerating
  \/ WsSendPerforming
  \/ \E r \in Runs : PerformSearch(r)
  \/ WsSendEvaluating
  \/ WsSendGoogle
  \/ WsSendSummarizing
  \/ \E r \in Runs : Summarize(r)
  \/ \E r \in Runs : FetchContent(r)
  \/ \E r \in Runs : WikipediaSearch(r)
  \/ \E r \in Runs : WikipediaPage(r)
  \/ \E r \in Runs : Generate(r)
  \/ WsSendCompleted
  \/ WsExceptDisconnect
  \/ WsExceptHTTPStatus
  \/ WsExceptOther
  \/ WsFinally
  \/ PeerDisconnect

Spec == Init /\ [][Next]_vars

\* Every await of a run returns or raises in the end: the event loop resumes
\* the task, and the collaborators' calls are made with timeouts.
FairSpec == Spec /\ \A r \in Runs : WF_vars(RunStep(r))

\* The stages up to the search call, for every query text.
NextQuery ==
  \/ SearchCall
  \/ WsAccept
  \/ WsReceive
  \/ WsSendExtracting
  \/ WsSendGenerating
  \/ WsSendPerforming
  \/ \E r \in Runs : PerformSearch(r)
  \/ WsExceptDisconnect
  \/ WsExceptHTTPStatus
  \/ WsExceptOther
  \/ WsFinally
  \/ PeerDisconnect

QuerySpec == InitQuery /\ [][NextQuery]_vars

\* The same request on both transports at once, the two runs interleaved at
\* their awaits, with a peer that stays connected.
InitPair == searchResp = Undecided /\ InitWith(Runs, PairQueries)

NextPair ==
  \/ SearchCall
  \/ WsAccept
  \/ WsReceive
  \/ WsSendExtracting
  \/ WsSendGenerating
  \/ WsSendPerforming
  \/ \E r \in Runs : PerformSearch(r)
  \/ WsSendEvaluating
  \/ WsSendGoogle
  \/ WsSendSummarizing
  \/ \E r \in Runs : Summarize(r)
  \/ \E r \in Runs : FetchContent(r)
  \/ \E r \in Runs : WikipediaSearch(r)
  \/ \E r \in Runs : WikipediaPage(r)
  \/ \E r \in Runs : Generate(r)
  \/ WsSendCompleted
  \/ WsExceptHTTPStatus
  \/ WsExceptOther
  \/ WsFinally

PairSpec == InitPair /\ [][NextPair]_vars

\* ------------------------------------------------------------------ claims
\* The status labels of a sequence of messages.
Labels(msgs) == [i \in 1..Len(msgs) |-> msgs[i].status]

IsPrefix(a, b) == Len(a) <= Len(b) /\ SubSeq(b, 1, Len(a)) = a

SuccessLabels ==
  <<"Extracting keywords...", "Generating search query...",
    "Performing search...", "Evaluating and filtering results...",
    "Google results ready", "Summarizing results...", "Completed">>

\* A terminal message has been delivered to the peer.
TerminalSent == \E i \in 1..Len(sent) : sent[i].status \in {"Completed", "Error"}

\* The streaming run has received the client's request message.
WsReceived == pc["ws"] \notin {"off", "accept", "receive"} /\ client_state = "CONNECTED"

\* The streaming run is over and the peer stayed connected throughout.
WsEndedConnected == pc["ws"] = "done" /\ conn = "closed_by_server"

\* C1: in a streaming run in which no stage raises and the peer stays
\* connected, the labels sent are at every moment a prefix of the seven
\* success labels, and at the end of the run they are exactly the seven, in
\* order, "Completed" last.
C1_SuccessLabels ==
  /\ (exc["ws"] = NoExc /\ conn # "closed_by_peer")
       => IsPrefix(Labels(sent), SuccessLabels)
  /\ (WsEndedConnected /\ exc["ws"] = NoExc) => Labels(sent) = SuccessLabels

W1_SuccessfulRun ==
  /\ WsEndedConnected
  /\ exc["ws"] = NoExc
  /\ Len(sent) = 7
  /\ sent[7].status = "Completed"

\* C2: every run ends with a terminal payload.  Streaming: once the request
\* has been received, a "Completed" or an "Error" message is sent in the end
\* unless the peer closes, and a run that ends with the peer connected has
\* sent one.  Synchronous: every call is answered in the end, with the
\* success body or with an error response.
C2_TerminalPayload ==
  /\ WsReceived ~> (TerminalSent \/ conn = "closed_by_peer")
  /\ [](WsEndedConnected => TerminalSent)
  /\ (pc["http"] # "off") ~> (response # NoResponse)
  /\ [](pc["http"] = "done" <=> response # NoResponse)
  /\ [](response # NoResponse =>
          \/ response.status = 200 /\ response.label = "Completed"
          \/ response.status # 200 /\ response.detail = exc["http"].text)

W2_ErrorAfterModelFailure ==
  /\ WsEndedConnected
  /\ exc["ws"].type = "ModelError"
  /\ sent[Len(sent)].status = "Error"

\* C3 (as claimed): once the peer has disconnected the server attempts no
\* further send (no stage event, no "Error" event, no close frame) and no
\* exception leaves websocket_search.
X3_NoSendAfterDisconnect == deadSends = 0 /\ escaped = "none"

\* C4 (as claimed): the transport is released exactly once: close is never
\* called twice, is called once after a terminal message when the peer has
\* not closed, and is never called on a connection the peer has closed.
X4_ReleasedOnce ==
  /\ closeCalls <= 1
  /\ (pc["ws"] = "done" /\ TerminalSent /\ conn # "closed_by_peer")
       => (closeCalls = 1 /\ conn = "closed_by_server")
  /\ conn = "closed_by_peer" => closeCalls = 0

\* The search API answered with a non-2xx status.
SearchRefused ==
  searchResp # Undecided /\ ~searchResp.fault /\ IsErrorStatus(searchResp.status)

\* C5: when the search API answers with a non-2xx status and a body, the
\* synchronous endpoint answers with that status and that body as detail, and
\* the streaming endpoint (peer connected) sends, right after "Performing
\* search...", an "Error" message whose detail is that body, and nothing else.
C5_SearchErrorSurfaced ==
  SearchRefused =>
    /\ pc["http"] = "done"
         => response = [status |-> searchResp.status, detail |-> searchResp.text]
    /\ WsEndedConnected
         => /\ Labels(sent) = SubSeq(SuccessLabels, 1, 3) \o <<"Error">>
            /\ sent[4].detail = searchResp.text
    /\ conn # "closed_by_peer" /\ pc["ws"] # "off"
         => \/ Labels(sent) = SubSeq(SuccessLabels, 1, 3)
            \/ Labels(sent) = SubSeq(SuccessLabels, 1, 3) \o <<"Error">>

W5_Forbidden ==
  /\ WsEndedConnected
  /\ searchResp.status = 403
  /\ Labels(sent) = SubSeq(SuccessLabels, 1, 3) \o <<"Error">>
  /\ sent[4].detail = "search api error body"

\* C6 (as claimed): the summary text returned as result is at most 300
\* characters long, in every run and on either transport.
X6_SummaryAtMostCap ==
  /\ \A r \in Runs : Len(summary[r]) <= SummaryCap
  /\ response # NoResponse /\ response.status = 200
       => Len(response.result) <= SummaryCap
  /\ \A i \in 1..Len(sent) :
       sent[i].status = "Completed" => Len(sent[i].result) <= SummaryCap

\* The positions of a run at which filtered_results holds the filter's output.
AfterFilter ==
  {"send_google", "send_summarizing", "summarize", "fetch_content",
   "wikipedia_search", "wikipedia_page", "generate", "send_completed"}

\* C7: the output of evaluate_and_filter_results has min(10, input length)
\* items and is the input's prefix of that length, in the input's order.
C7_FilterIsPrefix ==
  \A r \in Runs :
    (pc[r] \in AfterFilter \/ sources[r] # <<>>) =>
      /\ Len(filtered_results[r]) = Min(10, Len(search_results[r]))
      /\ \A i \in 1..Len(filtered_results[r]) :
           filtered_results[r][i] = search_results[r][i]

W7_FilterCuts ==
  /\ pc["ws"] = "send_google"
  /\ Len(search_results["ws"]) = 11
  /\ Len(filtered_results["ws"]) = 10

\* Whether a text has a character that is not whitespace.
HasWord(q) == \E i \in 1..Len(q) : q[i] \notin Whitespace

\* q with each whitespace run replaced by one space and the whitespace at
\* both ends removed: the characters of q that are not whitespace, each
\* preceded by one space when whitespace precedes it and a word precedes that.
RECURSIVE NormalizeFrom(_, _, _)
NormalizeFrom(q, i, out) ==
  IF i > Len(q) THEN out
  ELSE IF q[i] \in Whitespace THEN NormalizeFrom(q, i + 1, out)
  ELSE IF i > 1 /\ q[i - 1] \in Whitespace /\ out # <<>>
       THEN NormalizeFrom(q, i + 1, out \o <<" ", q[i]>>)
       ELSE NormalizeFrom(q, i + 1, Append(out, q[i]))

Normalized(q) == NormalizeFrom(q, 1, <<>>)

\* The positions of a run at which keywords, and search_query, are set.
KeywordsSet(r) ==
  \/ pc[r] \in {"send_generating", "send_performing", "perform_search"}
  \/ calls[r] # <<>>

QuerySet(r) == pc[r] \in {"send_performing", "perform_search"} \/ calls[r] # <<>>

\* The part of C8 that holds of every query text: no keyword is empty or has
\* whitespace in it, the search query is the normalized query, and extracting
\* and building again leaves the search query as it is.
RoundTrip(r) ==
  /\ KeywordsSet(r) =>
       \A k \in 1..Len(keywords[r]) :
         /\ keywords[r][k] # <<>>
         /\ \A j \in 1..Len(keywords[r][k]) : keywords[r][k][j] \notin Whitespace
  /\ QuerySet(r) =>
       /\ search_query[r] = Normalized(query)
       /\ generate_search_query(extract_keywords(search_query[r])) = search_query[r]

\* C8 (as claimed): for every non-empty query text there is at least one
\* keyword, and the round trip holds.
X8_NonEmptyQueryHasKeyword ==
  \A r \in Runs :
    /\ (KeywordsSet(r) /\ query # <<>>) => Len(keywords[r]) >= 1
    /\ RoundTrip(r)

\* C8 (amended): for every query text with at least one character that is not
\* whitespace there is at least one keyword; for every query text no keyword
\* is empty or has whitespace, the search query is the query with each
\* whitespace run replaced by one space and the ends trimmed, and extract
\* then build applied to it returns it unchanged.
C8_RoundTrip ==
  \A r \in Runs :
    /\ (KeywordsSet(r) /\ HasWord(query)) => Len(keywords[r]) >= 1
    /\ RoundTrip(r)

W8_TwoKeywords ==
  /\ query = <<" ", "a", "\t", "a">>
  /\ pc["http"] = "perform_search"
  /\ keywords["http"] = << <<"a">>, <<"a">> >>
  /\ search_query["http"] = <<"a", " ", "a">>

\* The detail of the failure the collaborators' answers lead to, "" when
\* they lead to none: the first answer, in the order of the calls, that makes
\* a stage raise.
AnswersDetail ==
  IF ~reqOk THEN "query: field required"
  ELSE IF searchResp.fault \/ searchResp.status # 200 THEN searchResp.text
  ELSE LET n == IF searchResp.hasItems THEN Len(searchResp.items) ELSE 0
           bad == {i \in 1..Min(3, n) : fetchResp[i].status # 200}
           first == CHOOSE i \in bad : \A j \in bad : i <= j
       IN  IF n = 0 THEN "list index out of range"
           ELSE IF bad # {}
           THEN (IF fetchResp[first].text = "Attention Required! | Cloudflare"
                    /\ fetchResp[first].status = 403
                 THEN "Blocked by Cloudflare" ELSE fetchResp[first].text)
           ELSE IF wikiSearchResp.status # 200 THEN wikiSearchResp.text
           ELSE IF wikiSearchResp.hit /\ wikiPageResp.status # 200
           THEN wikiPageResp.text
           ELSE IF modelResp.fault THEN modelResp.text
           ELSE ""

\* The terminal payload of a finished run is the one the answers determine.
OutcomeDetermined ==
  /\ WsEndedConnected =>
       LET last == sent[Len(sent)] IN
       IF AnswersDetail = ""
       THEN last.status = "Completed" /\ last.result = summarize_text(modelResp.chars)
       ELSE last = [status |-> "Error", detail |-> AnswersDetail]
  /\ pc["http"] = "done" =>
       IF AnswersDetail = ""
       THEN response.status = 200 /\ response.result = summarize_text(modelResp.chars)
       ELSE response.status # 200 /\ response.detail = AnswersDetail

\* An empty or whitespace-only query text.
Blank == ~HasWord(query)

\* Every run's keyword list and search query, once set, are empty.
BlankLocals ==
  \A r \in Runs :
    /\ (KeywordsSet(r) => (keywords[r] = <<>>))
    /\ (QuerySet(r) => (search_query[r] = <<>>))

\* C9: for an empty or whitespace-only query the keyword list is empty and
\* the search query is the empty text; the run still ends with a terminal
\* payload on both transports (streaming: unless the peer closes); and the
\* terminal payload is the one the collaborators' answers determine.
C9_BlankQuery ==
  /\ [](Blank => BlankLocals)
  /\ (Blank /\ WsReceived) ~> (TerminalSent \/ conn = "closed_by_peer")
  /\ (Blank /\ pc["http"] # "off") ~> (response # NoResponse)
  /\ [](Blank => OutcomeDetermined)

W9_BlankRunEnds ==
  /\ query = <<"\t", " ">>
  /\ reqOk
  /\ WsEndedConnected
  /\ keywords["ws"] = <<>>
  /\ Len(calls["ws"]) >= 1
  /\ calls["ws"][1].arg[1] = <<>>
  /\ TerminalSent

\* C10 (as claimed): a failed synchronous run answers with status 500
\* whenever the failure is not one of the search API or of a source page
\* fetch, so also when it is one of the encyclopedia lookup.
X10_OnlySearchAndFetchPassThrough ==
  (pc["http"] = "done" /\ exc["http"] # NoExc
     /\ exc["http"].origin \notin {"search", "fetch"})
    => response.status = GenericStatus

\* C10 (amended): a failed synchronous run answers with the upstream status
\* code and body exactly when the failure is a non-2xx answer (an
\* HTTPStatusError) of the search API, of a source page that is not a
\* Cloudflare block page, or of one of the two encyclopedia calls; every
\* other failure (a Cloudflare block, a model failure, any other exception)
\* answers with status 500 and the exception's message.
C10_StatusPassThrough ==
  (pc["http"] = "done" /\ exc["http"] # NoExc) =>
    LET e == exc["http"]
        upstream == CASE e.origin = "search" -> searchResp
                      [] e.origin = "fetch" -> fetchResp[fetched["http"] + 1]
                      [] e.origin = "wiki" ->
                           IF wikiSearchResp.status # 200 THEN wikiSearchResp
                           ELSE wikiPageResp
                      [] OTHER -> Undecided
    IN  IF /\ e.origin \in {"search", "fetch", "wiki"}
           /\ ~upstream.fault
           /\ ~(e.origin = "fetch" /\ upstream.status = 403
                  /\ MentionsCloudflare(upstream.text))
        THEN response = [status |-> upstream.status, detail |-> upstream.text]
        ELSE response = [status |-> 500, detail |-> e.text]

W10_EncyclopediaStatus ==
  /\ pc["http"] = "done"
  /\ exc["http"].origin = "wiki"
  /\ response = [status |-> 429, detail |-> "encyclopedia search error body"]

\* The arguments of run r's calls of one collaborator, in the order made.
CallsOf(r, api) ==
  LET made == SelectSeq(calls[r], LAMBDA c : c.api = api)
  IN  [i \in 1..Len(made) |-> made[i].arg]

\* Run r has returned from its endpoint.
Ended(r) == pc[r] = "done"

\* C11 (as claimed): fetch_content is called once for each of the top 3 links
\* of the filtered set, whatever the fetches of the other links do: a run
\* that has ended after choosing its sources has fetched every one of them,
\* once, in order.
X11_EverySourceFetched ==
  \A r \in Runs :
    (Ended(r) /\ sources[r] # <<>>) => (CallsOf(r, "fetch") = sources[r])

\* The exception the collaborators' answers lead a run of this request to,
\* NoExc when they lead to none: the first answer, in the order of the calls,
\* that makes a stage raise.
AloneExc ==
  LET n == Len(perform_search_items(searchResp))
      bad == {i \in 1..Min(SourceCap, n) :
                fetchResp[i] # Undecided /\ IsErrorStatus(fetchResp[i].status)}
      first == CHOOSE i \in bad : \A j \in bad : i <= j
  IN  IF ~reqOk THEN Exc("ValidationError", "request", "query: field required")
      ELSE IF searchResp.fault THEN Exc("RequestError", "search", searchResp.text)
      ELSE IF IsErrorStatus(searchResp.status)
      THEN HTTPStatusError("search", searchResp)
      ELSE IF n = 0
      THEN Exc("IndexError", "summarize", "list index out of range")
      ELSE IF bad # {}
      THEN (IF fetchResp[first].status = 403
               /\ MentionsCloudflare(fetchResp[first].text)
            THEN Exc("Exception", "fetch", "Blocked by Cloudflare")
            ELSE HTTPStatusError("fetch", fetchResp[first]))
      ELSE IF IsErrorStatus(wikiSearchResp.status)
      THEN HTTPStatusError("wiki", wikiSearchResp)
      ELSE IF wikiSearchResp.hit /\ IsErrorStatus(wikiPageResp.status)
      THEN HTTPStatusError("wiki", wikiPageResp)
      ELSE IF modelResp.fault THEN Exc("ModelError", "model", modelResp.text)
      ELSE NoExc

\* The filtered results, sources and summary the answers lead to.
AloneFiltered == Take(perform_search_items(searchResp), FilterCap)

AloneSources ==
  [i \in 1..Min(SourceCap, Len(AloneFiltered)) |-> AloneFiltered[i].link]

AloneSummary == render_latex(Take(modelResp.chars, SummaryCap))

\* The messages a streaming run of this request sends when it runs alone,
\* with these answers and a peer that stays connected.
AloneSent ==
  LET front3 == [i \in 1..3 |-> StatusMsg(SuccessLabels[i])]
      front6 == front3 \o
                <<StatusMsg(SuccessLabels[4]),
                  [status |-> "Google results ready",
                   googleResults |-> PublicView(AloneFiltered)],
                  StatusMsg(SuccessLabels[6])>>
      err == [status |-> "Error", detail |-> AloneExc.text]
  IN  IF AloneExc.origin = "request" THEN <<err>>
      ELSE IF AloneExc.origin = "search" THEN Append(front3, err)
      ELSE IF AloneExc # NoExc THEN Append(front6, err)
      ELSE Append(front6, [status |-> "Completed", result |-> AloneSummary,
                           sources |-> AloneSources])

\* The response of a synchronous run of this request when it runs alone.
AloneResponse ==
  IF AloneExc = NoExc
  THEN [status |-> 200, label |-> "Completed", result |-> AloneSummary,
        sources |-> AloneSources, googleResults |-> PublicView(AloneFiltered)]
  ELSE [status |-> IF AloneExc.type = "HTTPStatusError" THEN AloneExc.status
                   ELSE GenericStatus,
        detail |-> AloneExc.text]

\* What a run that has ended delivered is what it delivers alone.
AsAlone ==
  /\ WsEndedConnected => sent = AloneSent
  /\ Ended("http") => response = AloneResponse

\* A step of run r leaves the position, the locals, the exception, the calls
\* and the transport of every other run as they were.
OthersUntouched(r) ==
  \A q \in Runs \ {r} :
    /\ pc'[q] = pc[q]
    /\ keywords'[q] = keywords[q]
    /\ search_query'[q] = search_query[q]
    /\ search_results'[q] = search_results[q]
    /\ filtered_results'[q] = filtered_results[q]
    /\ sources'[q] = sources[q]
    /\ fetched'[q] = fetched[q]
    /\ summary'[q] = summary[q]
    /\ exc'[q] = exc[q]
    /\ calls'[q] = calls[q]
    /\ (q = "ws") => UNCHANGED socket
    /\ (q = "http") => UNCHANGED response

NoInterference == \A r \in Runs : RunStep(r) => OthersUntouched(r)

\* C12: two runs of one request interleaved at their awaits share no mutable
\* state: a step of one run changes nothing of the other, each run's messages
\* and terminal payload are those of the run alone with the same collaborator
\* answers, and no step changes the configuration or the model handle.
C12_NoSharedState ==
  /\ [][NoInterference]_vars
  /\ []AsAlone
  /\ [](Config = StartupConfig /\ model = StartupModel)

W12_BothEnded ==
  /\ WsEndedConnected
  /\ Ended("http")
  /\ response.status = 200
  /\ sent[Len(sent)].status = "Completed"
  /\ Len(calls["ws"]) = Len(calls["http"])
  /\ Len(calls["ws"]) = 6

\* The streaming run's try body raised while the peer stayed connected, and
\* the run is over.
WsFailedConnected == WsEndedConnected /\ exc["ws"] # NoExc

\* C13: in every streaming run no label is sent twice and an "Error" message
\* is the last message sent, sent only by a run that failed; a run that
\* failed with the peer connected has sent a proper prefix of the success
\* labels, without "Completed", and then exactly one "Error" message, which
\* carries the failure's text as detail.
C13_FailedRunLabels ==
  /\ \A i \in 1..Len(sent) :
       sent[i].status = "Error" => (i = Len(sent) /\ exc["ws"] # NoExc)
  /\ \A i, j \in 1..Len(sent) : i < j => sent[i].status # sent[j].status
  /\ WsFailedConnected =>
       LET n == Len(sent) IN
       /\ n >= 1
       /\ n <= Len(SuccessLabels)
       /\ DOMAIN sent[n] = {"status", "detail"}
       /\ sent[n].status = "Error"
       /\ sent[n].detail = exc["ws"].text
       /\ Labels(SubSeq(sent, 1, n - 1)) = SubSeq(SuccessLabels, 1, n - 1)
       /\ \A i \in 1..n : sent[i].status # "Completed"

W13_FailedAtFetch ==
  /\ WsFailedConnected
  /\ exc["ws"].origin = "fetch"
  /\ Labels(sent) = SubSeq(SuccessLabels, 1, 6) \o <<"Error">>
  /\ sent[7].detail = "page not found body"

\* Run r has made an encyclopedia call or the model call and the call failed.
HardFailure(r) ==
  \/ CallsOf(r, "wiki_search") # <<>> /\ IsErrorStatus(wikiSearchResp.status)
  \/ CallsOf(r, "wiki_page") # <<>> /\ IsErrorStatus(wikiPageResp.status)
  \/ CallsOf(r, "generate") # <<>> /\ modelResp.fault

\* Run r delivered nothing of a success: no "Completed", no summary, no
\* sources.
NothingOfSuccess(r) ==
  /\ summary[r] = <<>>
  /\ (r = "ws") =>
       \A i \in 1..Len(sent) :
         /\ sent[i].status # "Completed"
         /\ DOMAIN sent[i] \cap {"result", "sources"} = {}
  /\ (r = "http") =>
       /\ response # NoResponse
       /\ response.status # 200
       /\ DOMAIN response = {"status", "detail"}

\* The last message delivered to the peer is an "Error" message.
ErrorSentLast == sent # <<>> /\ sent[Len(sent)].status = "Error"

\* Run r made none of the three calls more than once.
NoRetry(r) ==
  \A api \in {"wiki_search", "wiki_page", "generate"} :
    Len(CallsOf(r, api)) <= 1

\* C14: a failure of either encyclopedia call or of the model call is fatal.
\* From then on the run delivers no "Completed", no summary and no sources
\* and repeats no call; the synchronous run has answered with an error
\* response; the streaming run sends an "Error" message in the end unless
\* the peer closes, and has sent it as its last message when it ends with
\* the peer connected.
C14_HardFailure ==
  /\ [](\A r \in Runs : HardFailure(r) => (NothingOfSuccess(r) /\ NoRetry(r)))
  /\ [](HardFailure("ws") /\ WsEndedConnected
          => sent[Len(sent)] = [status |-> "Error", detail |-> exc["ws"].text])
  /\ HardFailure("ws") ~> (ErrorSentLast \/ conn = "closed_by_peer")

W14_EncyclopediaPageFailed ==
  /\ WsEndedConnected
  /\ CallsOf("ws", "wiki_page") # <<>>
  /\ wikiPageResp.status = 503
  /\ sent[Len(sent)] =
       [status |-> "Error", detail |-> "encyclopedia page error body"]

\* view is, item for item and in order, the link, title and snippet of
\* results and nothing else.
IsProjection(view, results) ==
  /\ Len(view) = Len(results)
  /\ \A k \in 1..Len(view) :
       view[k] = [link |-> results[k].link, title |-> results[k].title,
                  snippet |-> results[k].snippet]

\* The positions in sent of the messages with one of the given labels.
Positions(labels) == {i \in 1..Len(sent) : sent[i].status \in labels}

\* C15: the "Google results" data delivered on either transport is the
\* link/title/snippet projection of the filtered results, at most 10 items,
\* in rank order.  The streaming run sends it after the search call has
\* returned, before "Summarizing results..." and "Completed", and makes no
\* page fetch, encyclopedia call or model call before it has sent it.
C15_GoogleResults ==
  /\ \A i \in Positions({"Google results ready"}) :
       /\ DOMAIN sent[i] = {"status", "googleResults"}
       /\ IsProjection(sent[i].googleResults, filtered_results["ws"])
       /\ Len(sent[i].googleResults) <= 10
       /\ Len(CallsOf("ws", "search")) = 1
       /\ searchResp # Undecided
       /\ filtered_results["ws"] = Take(perform_search_items(searchResp), 10)
       /\ \A j \in Positions({"Summarizing results...", "Completed"}) : i < j
  /\ (Positions({"Summarizing results...", "Completed"}) # {}
        \/ \E k \in 1..Len(calls["ws"]) : calls["ws"][k].api # "search")
       => Positions({"Google results ready"}) # {}
  /\ (response # NoResponse /\ response.status = 200) =>
       /\ IsProjection(response.googleResults, filtered_results["http"])
       /\ Len(response.googleResults) <= 10
       /\ filtered_results["http"] = Take(perform_search_items(searchResp), 10)

W15_TenOfElevenSent ==
  /\ pc["ws"] = "send_summarizing"
  /\ Len(searchResp.items) = 11
  /\ Len(sent) = 5
  /\ Len(sent[5].googleResults) = 10
  /\ DOMAIN sent[5].googleResults[10] = {"link", "title", "snippet"}
  /\ Len(calls["ws"]) = 1

\* The positions of a run at which perform_search has returned its list.
AfterSearch == AfterFilter \cup {"send_evaluating"}

\* C16: for a page number p >= 1 a run calls the search API at most once,
\* and exactly once when perform_search has returned, with the search query
\* generate_search_query built and with start = (p - 1) * 10 + 1, which is 1
\* for page 1; the list perform_search returns is the answer's items array,
\* and the empty list when the answer has none.
C16_SearchCall ==
  \A r \in Runs :
    page >= 1 =>
      /\ Len(CallsOf(r, "search")) <= 1
      /\ \A k \in 1..Len(CallsOf(r, "search")) :
           /\ CallsOf(r, "search")[k][1] = search_query[r]
           /\ CallsOf(r, "search")[k][1] = generate_search_query(keywords[r])
           /\ CallsOf(r, "search")[k][2] = (page - 1) * 10 + 1
           /\ (page = 1) => (CallsOf(r, "search")[k][2] = 1)
      /\ (pc[r] \in AfterSearch) =>
           /\ Len(CallsOf(r, "search")) = 1
           /\ searchResp.hasItems => (search_results[r] = searchResp.items)
           /\ ~searchResp.hasItems => (search_results[r] = <<>>)

W16_SecondPageNoItems ==
  /\ pc["http"] = "summarize"
  /\ page = 2
  /\ calls["http"] =
       <<[api |-> "search", arg |-> <<(<<"a", " ", "a">>), 11>>]>>
  /\ ~searchResp.hasItems
  /\ search_results["http"] = <<>>

\* The links of the first min(3, n) items of run r's filtered results.
TopLinks(r) ==
  [i \in 1..Min(3, Len(filtered_results[r])) |-> filtered_results[r][i].link]

\* In run r's calls every page fetch comes before every encyclopedia call
\* and before the model call.
FetchesFirst(r) ==
  \A i, j \in 1..Len(calls[r]) :
    (calls[r][i].api = "fetch"
       /\ calls[r][j].api \in {"wiki_search", "wiki_page", "generate"})
      => i < j

\* The sources of run r's success payload, <<>> when it has delivered none.
DeliveredSources(r) ==
  IF r = "http"
  THEN (IF response # NoResponse /\ response.status = 200
        THEN <<response.sources>> ELSE <<>>)
  ELSE [i \in 1..Cardinality(Positions({"Completed"})) |->
          sent[CHOOSE p \in Positions({"Completed"}) : TRUE].sources]

\* C17: the sources of a successful run's terminal payload are the links of
\* the first min(3, n) items of the filtered results, in rank order; the
\* pages fetched are exactly these, each once and in that order; and every
\* fetch is made before the encyclopedia lookup and the model call.
C17_SourcesAreFetched ==
  \A r \in Runs :
    /\ FetchesFirst(r)
    /\ \A k \in 1..Len(DeliveredSources(r)) :
         /\ DeliveredSources(r)[k] = TopLinks(r)
         /\ CallsOf(r, "fetch") = TopLinks(r)
         /\ CallsOf(r, "generate") # <<>>

W17_ThreeOfTen ==
  /\ Ended("http")
  /\ response.status = 200
  /\ Len(filtered_results["http"]) = 10
  /\ response.sources = <<(<<"link", 1>>), (<<"link", 2>>), (<<"link", 3>>)>>
  /\ Len(calls["http"]) >= 6
  /\ \A i \in 1..3 : calls["http"][i + 1] = [api |-> "fetch", arg |-> <<"link", i>>]

\* Whether the text s has the text pat in it.
Contains(s, pat) ==
  \E i \in 1..(Len(s) - Len(pat) + 1) : SubSeq(s, i, i + Len(pat) - 1) = pat

\* C18 (as claimed): render_latex leaves no "$" in the text, turns an inline
\* delimiter "$" into "\(", and turns a block delimiter "$$" into the block
\* form "\[" or "\]" rather than into two inline forms "\(\(".
X18_BlockDelimiterConverted ==
  \A r \in Runs :
    (CallsOf(r, "generate") # <<>> /\ ~modelResp.fault) =>
      LET text == Take(modelResp.chars, SummaryCap) IN
      /\ ~Contains(summary[r], <<"$">>)
      /\ (Contains(text, <<"$">>) /\ ~Contains(text, <<"$", "$">>))
           => Contains(summary[r], <<"\\", "(">>)
      /\ Contains(text, <<"$", "$">>) =>
           /\ \/ Contains(summary[r], <<"\\", "[">>)
              \/ Contains(summary[r], <<"\\", "]">>)
           /\ ~Contains(summary[r], <<"\\", "(", "\\", "(">>)

\* The search API answered with a 2xx status and no item: an empty items
\* array, or no items array at all.
NoItems ==
  /\ searchResp # Undecided
  /\ ~searchResp.fault
  /\ ~IsErrorStatus(searchResp.status)
  /\ perform_search_items(searchResp) = <<>>

\* C19: when the search succeeds with no items, no run makes a page fetch,
\* an encyclopedia call or a model call, and none delivers "Completed"; the
\* streaming run (peer connected) sends the first four labels, "Google
\* results ready" with an empty list, "Summarizing results...", and ends
\* with an "Error" message; the synchronous run answers with status 500.
C19_NoItemsFails ==
  NoItems =>
    /\ \A r \in Runs : \A k \in 1..Len(calls[r]) : calls[r][k].api = "search"
    /\ Positions({"Completed"}) = {}
    /\ (conn # "closed_by_peer" /\ pc["ws"] # "off") =>
         IsPrefix(Labels(sent), SubSeq(SuccessLabels, 1, 6) \o <<"Error">>)
    /\ \A i \in Positions({"Google results ready"}) :
         sent[i].googleResults = <<>>
    /\ WsEndedConnected =>
         /\ Labels(sent) = SubSeq(SuccessLabels, 1, 6) \o <<"Error">>
         /\ exc["ws"].type = "IndexError"
         /\ sent[7].detail = exc["ws"].text
    /\ Ended("http") =>
         /\ response.status = 500
         /\ exc["http"].type = "IndexError"
         /\ response.detail = exc["http"].text

W19_EmptyItemsArray ==
  /\ WsEndedConnected
  /\ searchResp.hasItems
  /\ searchResp.items = <<>>
  /\ Len(sent) = 7
  /\ sent[5] = [status |-> "Google results ready", googleResults |-> <<>>]
  /\ sent[6].status = "Summarizing results..."
  /\ sent[7].status = "Error"

\* Both runs of the request are over, the peer connected throughout.
BothEnded == WsEndedConnected /\ Ended("http")

====
